---- MODULE Spec2Model ----
(***************************************************************************)
(* A model of fststr (src/fststr/fststr.py): tokenization of a string into *)
(* the symbols of a symbol table, construction of a linear-chain           *)
(* automaton, composition with a transducer, extraction of the strings of  *)
(* the resulting lattice, and expansion of <other> arcs.                   *)
(*                                                                         *)
(* A Python string is a sequence of one-character strings; an automaton is *)
(* a record [states, start, finals, arcs] whose arcs are a sequence of     *)
(* records [src, ilabel, olabel, nextstate] (the arcs of one state are the *)
(* subsequence with that src, in order).                                   *)
(***************************************************************************)
EXTENDS Integers, Sequences, FiniteSets

VARIABLES
    \* string_to_symbol_list
    tpc,            \* "call" | "loop" | "returned" | "raised"
    tstring,        \* the argument string as passed
    string,         \* the local `string`: what remains to be tokenized
    symbols,        \* the local `symbols`: the list passed, then the sorted list
    elements,       \* the local `elements`
    texc            \* the substring an IllegalSymbol carries

VARIABLES
    \* expand_other_symbols
    automaton,      \* the Fst the call mutates
    xpc,            \* "idle" | "dfs"
    stack,          \* dfs's local `stack`
    visited,        \* dfs's local `visited`
    xcalls,         \* calls of expand_other_symbols made on automaton so far
    arcsOrig,       \* history: automaton's arcs before the first call
    arcsAtCall,     \* history: automaton's arcs when the current call began
    visitCount,     \* history: times each state was processed in the current call
    xsteps          \* history: iterations of dfs's while loop in the current call

VARIABLES
    \* apply, linear_fst, apply_fst_to_list, all_strings_from_chain
    apc,            \* where the call is: "idle" | "tokenize" | "linear_fst" |
                    \* "compose" | "num_states" | "cyclic" | "dfs" | "join" |
                    \* "returned" | "raised"
    astring,        \* apply's argument `string`
    transducer,     \* apply's argument `automaton`
    aelements,      \* apply's local `elements`
    chain,          \* apply_fst_to_list's local `linear_automata`
    lattice,        \* apply's local `lattice`: all_strings_from_chain's argument
    dfsDefault,     \* the list that is the default of `paths` in the dfs defined last
    paths,          \* all_strings_from_chain's local `paths`
    strings,        \* the list returned
    exc,            \* the exception raised, or None
    calls,          \* calls of all_strings_from_chain made so far
    prevCount       \* history: paths the previous call had accumulated

appVars == <<apc, astring, transducer, aelements, chain, lattice, dfsDefault,
             paths, strings, exc, calls, prevCount>>

tokVars == <<tpc, tstring, string, symbols, elements, texc>>

expVars == <<automaton, xpc, stack, visited, xcalls, arcsOrig, arcsAtCall,
             visitCount, xsteps>>

vars == <<tokVars, expVars, appVars>>

None == "None"

\* The value of a variable that holds an automaton and is not bound.
NoFst == [states |-> {}, start |-> -2, finals |-> {}, arcs |-> <<>>]

----------------------------------------------------------------------------
(* Bounds of the model *)

MaxSymbolLen == 2       \* longest symbol of a generated alphabet
MaxAlphabet == 3        \* most symbols in a generated alphabet
MaxStringLen == 4       \* longest string handed to string_to_symbol_list
MaxExpandArcs == 3      \* most arcs of a generated automaton given to expand_other_symbols
MaxExpandCalls == 2     \* calls of expand_other_symbols on one automaton
MaxPathArcs == 3        \* most arcs of a generated automaton given to all_strings_from_chain
MaxExtractCalls == 2    \* calls of all_strings_from_chain in one process
MaxTransducerArcs == 2  \* most arcs of a generated transducer given to apply
MaxInputLen == 2        \* longest string given to apply

----------------------------------------------------------------------------
(* General helpers *)

Min(a, b) == IF a < b THEN a ELSE b

Range(seq) == {seq[i] : i \in 1 .. Len(seq)}

RECURSIVE SeqsUpTo(_, _)
SeqsUpTo(S, n) ==
    IF n = 0 THEN {<<>>}
    ELSE LET P == SeqsUpTo(S, n - 1)
         IN  P \cup {Append(p, x) : p \in {q \in P : Len(q) = n - 1}, x \in S}

RECURSIVE SubsetsUpTo(_, _)
SubsetsUpTo(S, n) ==
    IF n = 0 THEN {{}}
    ELSE LET P == SubsetsUpTo(S, n - 1)
         IN  P \cup {p \cup {x} : p \in P, x \in S}

RECURSIVE SetToSeq(_)
SetToSeq(S) ==
    IF S = {} THEN <<>>
    ELSE LET x == CHOOSE y \in S : TRUE IN <<x>> \o SetToSeq(S \ {x})

RECURSIVE Concat(_)
Concat(seqs) == IF seqs = <<>> THEN <<>> ELSE Head(seqs) \o Concat(Tail(seqs))

----------------------------------------------------------------------------
(* A specification runs one part of the module; the other parts' variables
   rest in these states. *)

TokIdle ==
    /\ tpc = "idle"
    /\ tstring = <<>>
    /\ string = <<>>
    /\ symbols = <<>>
    /\ elements = <<>>
    /\ texc = None

ExpIdle ==
    /\ automaton = NoFst
    /\ xpc = "idle"
    /\ stack = <<>>
    /\ visited = {}
    /\ xcalls = 0
    /\ arcsOrig = <<>>
    /\ arcsAtCall = <<>>
    /\ visitCount = <<>>
    /\ xsteps = 0

AppIdle ==
    /\ apc = "idle"
    /\ astring = <<>>
    /\ transducer = NoFst
    /\ aelements = <<>>
    /\ chain = NoFst
    /\ lattice = NoFst
    /\ dfsDefault = <<>>
    /\ paths = <<>>
    /\ strings = <<>>
    /\ exc = None
    /\ calls = 0
    /\ prevCount = 0

----------------------------------------------------------------------------
(* string_to_symbol_list *)

Chars == {"a", "b"}

\* Python's string[0:n]: the first n characters, or all of a shorter string.
Slice0(str, n) == SubSeq(str, 1, Min(n, Len(str)))

\* Python's string[n:].
SliceFrom(str, n) == SubSeq(str, n + 1, Len(str))

RECURSIVE SortFrom(_, _)
SortFrom(seq, n) ==
    IF n < 0 THEN <<>>
    ELSE SelectSeq(seq, LAMBDA x : Len(x) = n) \o SortFrom(seq, n - 1)

MaxLenOf(seq) ==
    IF seq = <<>> THEN 0
    ELSE CHOOSE n \in {Len(seq[i]) : i \in 1 .. Len(seq)} :
            \A i \in 1 .. Len(seq) : Len(seq[i]) <= n

RECURSIVE SortUpFrom(_, _, _)
SortUpFrom(seq, n, top) ==
    IF n > top THEN <<>>
    ELSE SelectSeq(seq, LAMBDA x : Len(x) = n) \o SortUpFrom(seq, n + 1, top)

\* sorted(symbols, key=len) without reverse=True: shortest first.
sorted_ascending(seq) == SortUpFrom(seq, 0, MaxLenOf(seq))

\* sorted(symbols, key=len, reverse=True): longest first, stable.
sorted_by_len(seq) == SortFrom(seq, MaxLenOf(seq))

\* The for loop of one while iteration: the index of the first symbol of the
\* sorted list that equals string[0:len(symbol)], 0 when there is none.
first_match(sorted, str) ==
    LET hits == {i \in 1 .. Len(sorted) : sorted[i] = Slice0(str, Len(sorted[i]))}
    IN  IF hits = {} THEN 0
        ELSE CHOOSE i \in hits : \A j \in hits : i <= j

\* string = string[len(symbol):] taking one character only.
consume_one(str, symbol) == SliceFrom(str, 1)

\* string = string[len(symbol):]
consume(str, symbol) == SliceFrom(str, Len(symbol))

SymbolUniverse == SeqsUpTo(Chars, MaxSymbolLen) \ {<<>>}

Alphabets == {SetToSeq(A) : A \in SubsetsUpTo(SymbolUniverse, MaxAlphabet)}

Strings == SeqsUpTo(Chars, MaxStringLen)

TokInit ==
    /\ tpc = "call"
    /\ tstring \in Strings
    /\ string = tstring
    /\ symbols \in Alphabets
    /\ elements = <<>>
    /\ texc = None
    /\ ExpIdle
    /\ AppIdle

\* Lines 68-69: elements = [], symbols = sorted(...).
string_to_symbol_list_enter ==
    /\ tpc = "call"
    /\ elements' = <<>>
    /\ symbols' = sorted_by_len(symbols)
    /\ tpc' = "loop"
    /\ UNCHANGED <<tstring, string, texc>>
    /\ UNCHANGED <<expVars, appVars>>

\* Lines 70-79: one iteration of the while loop.
string_to_symbol_list_iter ==
    /\ tpc = "loop"
    /\ string # <<>>
    /\ LET m == first_match(symbols, string)
       IN  IF m # 0
           THEN /\ elements' = Append(elements, symbols[m])
                /\ string' = consume(string, symbols[m])
                /\ UNCHANGED <<tpc, texc>>
           ELSE /\ tpc' = "raised"
                /\ texc' = string
                /\ UNCHANGED <<elements, string>>
    /\ UNCHANGED <<tstring, symbols>>
    /\ UNCHANGED <<expVars, appVars>>

\* Line 80: the loop is left with string empty.
string_to_symbol_list_return ==
    /\ tpc = "loop"
    /\ string = <<>>
    /\ tpc' = "returned"
    /\ UNCHANGED <<tstring, string, symbols, elements, texc>>
    /\ UNCHANGED <<expVars, appVars>>

TokNext ==
    \/ string_to_symbol_list_enter
    \/ string_to_symbol_list_iter
    \/ string_to_symbol_list_return

SpecTok == TokInit /\ [][TokNext]_vars

----------------------------------------------------------------------------
(* Claims about string_to_symbol_list *)

IsPrefix(p, str) == Len(p) <= Len(str) /\ SubSeq(str, 1, Len(p)) = p

\* s is a concatenation of symbols of the set A.
RECURSIVE Decomposable(_, _)
Decomposable(s, A) ==
    \/ s = <<>>
    \/ \E x \in A : x # <<>> /\ IsPrefix(x, s) /\ Decomposable(SliceFrom(s, Len(x)), A)

\* No symbol of A is a proper prefix of another.
PrefixFree(A) == \A x \in A, y \in A : IsPrefix(x, y) => x = y

\* C1 as stated: a string made of alphabet symbols is tokenized without an
\* exception, and the symbols returned concatenate to the string.
C1_Original ==
    Decomposable(tstring, Range(symbols)) =>
        /\ tpc # "raised"
        /\ tpc = "returned" => Concat(elements) = tstring

\* C1 amended: the loop makes at most len(s) iterations, what is consumed plus
\* what remains is the argument (so a returned list concatenates to it), and
\* no exception is raised for a string made of alphabet symbols when no symbol
\* is a proper prefix of another.
C1_Amended ==
    /\ tpc # "call" => /\ Concat(elements) \o string = tstring
                       /\ Len(elements) <= Len(tstring)
    /\ tpc = "returned" => Concat(elements) = tstring
    /\ (PrefixFree(Range(symbols)) /\ Decomposable(tstring, Range(symbols)))
           => tpc # "raised"

\* A multi-symbol string over a prefix-free alphabet with symbols of two
\* lengths has been tokenized.
C1_Witness ==
    /\ tpc = "returned"
    /\ Len(elements) >= 2
    /\ PrefixFree(Range(symbols))
    /\ \E i, j \in 1 .. Len(elements) : Len(elements[i]) # Len(elements[j])

\* C2: an iteration appends the longest symbol that is a prefix of the remaining
\* input and consumes it; it raises exactly when no symbol is a prefix, with
\* the whole remaining input in the exception.
C2_LongestMatch ==
    [][(tpc = "loop" /\ string # <<>>) =>
        LET cands == {x \in Range(symbols) : IsPrefix(x, string)}
        IN  IF cands = {}
            THEN tpc' = "raised" /\ texc' = string /\ elements' = elements
            ELSE /\ tpc' = "loop"
                 /\ \E x \in cands :
                      /\ \A y \in cands : Len(y) <= Len(x)
                      /\ elements' = Append(elements, x)
                      /\ string' = SliceFrom(string, Len(x))]_vars

\* A two-character symbol was taken although its first character is a symbol
\* too, and the rest then started with no symbol.
C2_Witness ==
    /\ tpc = "raised"
    /\ texc # <<>>
    /\ elements # <<>>
    /\ Len(elements[1]) = 2
    /\ <<elements[1][1]>> \in Range(symbols)

----------------------------------------------------------------------------
(* Symbol tables *)

Epsilon == <<"<", "e", "p", "s", "i", "l", "o", "n", ">">>
Other == <<"<", "o", "t", "h", "e", "r", ">">>
Boundary == <<"<", "#", ">">>

\* The alphabet of the model's automata: main()'s list('abcABC') + ['<other>']
\* without c and C, and with EN_SYMB's '<#>'.
Alphabet == << <<"a">>, <<"b">>, <<"A">>, <<"B">>, Other, Boundary >>

\* st.add_symbol('<epsilon>', 0), then symbol i of the alphabet at i+1.
symbols_table_from_alphabet(alphabet) ==
    [n \in 0 .. Len(alphabet) |-> IF n = 0 THEN Epsilon ELSE alphabet[n]]

SymbolTable == symbols_table_from_alphabet(Alphabet)

\* symb_map[name]: the code of a symbol.
symb_map(table, name) == CHOOSE n \in DOMAIN table : table[n] = name

Code(name) == symb_map(SymbolTable, name)

----------------------------------------------------------------------------
(* Automata *)

\* automaton.arcs(state), in order.
ArcsOf(fst, state) == SelectSeq(fst.arcs, LAMBDA arc : arc.src = state)

\* automaton.num_arcs(state)
num_arcs(fst, state) == Len(ArcsOf(fst, state))

Arc(src, ilabel, olabel, nextstate) ==
    [src |-> src, ilabel |-> ilabel, olabel |-> olabel, nextstate |-> nextstate]

\* The states reachable from the states S over the arcs `arcs`, S included.
RECURSIVE ReachFrom(_, _)
ReachFrom(S, arcs) ==
    LET T == S \cup {arcs[i].nextstate : i \in {j \in 1 .. Len(arcs) : arcs[j].src \in S}}
    IN  IF T = S THEN S ELSE ReachFrom(T, arcs)

Reverse(seq) == [i \in 1 .. Len(seq) |-> seq[Len(seq) + 1 - i]]

\* The elements of a set of integers in ascending order.
RECURSIVE Ascending(_)
Ascending(S) ==
    IF S = {} THEN <<>>
    ELSE LET x == CHOOSE y \in S : \A z \in S : y <= z
         IN  <<x>> \o Ascending(S \ {x})

\* main()'s transducer (lines 238-245) over the model's alphabet.
Scramble ==
    [states |-> 0 .. 2, start |-> 0, finals |-> {2, 0},
     arcs |-> << Arc(0, Code(Other), Code(Other), 1),
                 Arc(1, Code(<<"b">>), Code(<<"B">>), 2),
                 Arc(1, Code(Other), 0, 0),
                 Arc(0, Code(<<"a">>), Code(<<"A">>), 2) >>]

----------------------------------------------------------------------------
(* expand_other_symbols *)

\* Line 129: the codes of the symbols wrapped in angle brackets.
special(table) ==
    {n \in DOMAIN table : table[n][1] = "<" /\ table[n][Len(table[n])] = ">"}

\* Line 130: the codes of the other symbols.
keys(table) == DOMAIN table \ special(table)

\* Lines 137-142: the dict `arcs`, ilabel -> {olabel, nextstate}; a later arc
\* with the same ilabel overwrites an earlier one.
arcs_dict(fst, state) ==
    LET out == ArcsOf(fst, state)
        labels == {out[i].ilabel : i \in 1 .. Len(out)}
        last(l) == CHOOSE i \in 1 .. Len(out) :
                      /\ out[i].ilabel = l
                      /\ \A j \in 1 .. Len(out) : out[j].ilabel = l => j <= i
    IN  [l \in labels |-> [olabel |-> out[last(l)].olabel,
                           nextstate |-> out[last(l)].nextstate]]

\* Line 146 without the subtraction: every key.
missing_symbols_all(ks, arcs) == ks

\* Line 146: keys - set(arcs).
missing_symbols(ks, arcs) == ks \ DOMAIN arcs

\* Line 148 always taking the new symbol as the output label.
new_olabel_identity(olabel, symb, other) == symb

\* Line 148: olabel = symb if olabel == other else olabel.
new_olabel(olabel, symb, other) == IF olabel = other THEN symb ELSE olabel

\* Line 136 without the add.
mark_visited_never(vis, state) == vis

\* Line 136: visited.add(state).
mark_visited(vis, state) == vis \cup {state}

\* Lines 144-151: the arcs added at `state`, in the order they are added.
added_arcs(fst, state, table) ==
    LET arcs == arcs_dict(fst, state)
        other == symb_map(table, Other)
    IN  IF other \in DOMAIN arcs
        THEN LET todo == Ascending(missing_symbols(keys(table), arcs))
             IN  [i \in 1 .. Len(todo) |->
                     Arc(state, todo[i],
                         new_olabel(arcs[other].olabel, todo[i], other),
                         arcs[other].nextstate)]
        ELSE <<>>

ExpandStates == 0 .. 2

\* The generated automata have arcs out of states 0 and 1; state 2 has none.
ExpandSources == 0 .. 1

\* The label pairs of the generated automata: a:a, <other>:<other>,
\* <other>:<epsilon>.
ExpandLabels ==
    { <<Code(<<"a">>), Code(<<"a">>)>>, <<Code(Other), Code(Other)>>,
      <<Code(Other), 0>> }

ExpandArcs ==
    {Arc(s, l[1], l[2], d) : s \in ExpandSources, d \in ExpandStates, l \in ExpandLabels}

ExpandAutomata ==
    {[states |-> ExpandStates, start |-> 0, finals |-> {2}, arcs |-> a] :
        a \in UNION {{SetToSeq(S), Reverse(SetToSeq(S))} :
                        S \in SubsetsUpTo(ExpandArcs, MaxExpandArcs)}}
    \cup {Scramble}

ExpInit ==
    /\ automaton \in ExpandAutomata
    /\ xpc = "idle"
    /\ stack = <<>>
    /\ visited = {}
    /\ xcalls = 0
    /\ arcsOrig = automaton.arcs
    /\ arcsAtCall = automaton.arcs
    /\ visitCount = [q \in automaton.states |-> 0]
    /\ xsteps = 0
    /\ TokIdle
    /\ AppIdle

\* Lines 125-132 and 152: the call, up to dfs's first test of `stack`.
expand_other_symbols_call ==
    /\ xpc = "idle"
    /\ xcalls < MaxExpandCalls
    /\ xcalls' = xcalls + 1
    /\ arcsAtCall' = automaton.arcs
    /\ visited' = {}
    /\ stack' = <<automaton.start>>
    /\ visitCount' = [q \in automaton.states |-> 0]
    /\ xsteps' = 0
    /\ xpc' = "dfs"
    /\ UNCHANGED <<automaton, arcsOrig>>
    /\ UNCHANGED <<tokVars, appVars>>

\* Lines 133-151: one iteration of dfs's while loop.
dfs_iter ==
    /\ xpc = "dfs"
    /\ stack # <<>>
    /\ LET state == stack[Len(stack)]
           rest == SubSeq(stack, 1, Len(stack) - 1)
           out == ArcsOf(automaton, state)
       IN  IF state \notin visited
           THEN /\ visited' = mark_visited(visited, state)
                /\ stack' = rest \o [i \in 1 .. Len(out) |-> out[i].nextstate]
                /\ automaton' =
                     [automaton EXCEPT
                         !.arcs = @ \o added_arcs(automaton, state, SymbolTable)]
                /\ visitCount' = [visitCount EXCEPT ![state] = @ + 1]
           ELSE /\ stack' = rest
                /\ UNCHANGED <<visited, automaton, visitCount>>
    /\ xsteps' = xsteps + 1
    /\ UNCHANGED <<xpc, xcalls, arcsOrig, arcsAtCall>>
    /\ UNCHANGED <<tokVars, appVars>>

\* Line 153: `stack` is empty, dfs and the call return.
expand_other_symbols_return ==
    /\ xpc = "dfs"
    /\ stack = <<>>
    /\ xpc' = "idle"
    /\ UNCHANGED <<automaton, stack, visited, xcalls, arcsOrig, arcsAtCall,
                   visitCount, xsteps>>
    /\ UNCHANGED <<tokVars, appVars>>

ExpNext ==
    \/ expand_other_symbols_call
    \/ dfs_iter
    \/ expand_other_symbols_return

SpecExpand == ExpInit /\ [][ExpNext]_vars

----------------------------------------------------------------------------
(* Claims about expand_other_symbols *)

ExpandReturned(n) == xpc = "idle" /\ xcalls = n

Reachable == ReachFrom({automaton.start}, arcsOrig)

ILabelsAt(arcs, q) == {arcs[i].ilabel : i \in {j \in 1 .. Len(arcs) : arcs[j].src = q}}

Ordinary == {n \in DOMAIN SymbolTable :
                /\ n # 0
                /\ ~(Head(SymbolTable[n]) = "<" /\ SymbolTable[n][Len(SymbolTable[n])] = ">")}

StateLabelPairs(arcs) == {<<arcs[i].src, arcs[i].ilabel>> : i \in 1 .. Len(arcs)}

\* C7 as stated: a second call adds the synthesized arcs again, so that the
\* automaton has more arcs after two calls than after one.
C7_Original ==
    (ExpandReturned(2) /\ Len(arcsAtCall) > Len(arcsOrig)) =>
        Len(automaton.arcs) > Len(arcsAtCall)

\* C7 amended: a second call adds no arc: the automaton after two calls is the
\* automaton after one call.
C7_Amended ==
    (xcalls >= 2) => automaton.arcs = arcsAtCall

\* The second call has returned on an automaton to which the first added arcs.
C7_Witness ==
    ExpandReturned(2) /\ Len(arcsAtCall) > Len(arcsOrig)

\* C8: after a call, every reachable state with an <other> arc has an arc for
\* every ordinary symbol; a further call adds no (state, input label) pair; a
\* call processes each reachable state once and no other, in at most
\* 1 + (number of arcs) iterations.
C8_Coverage ==
    /\ (xpc = "idle" /\ xcalls >= 1) =>
          /\ \A q \in Reachable :
                Code(Other) \in ILabelsAt(automaton.arcs, q) =>
                    Ordinary \subseteq ILabelsAt(automaton.arcs, q)
          /\ \A q \in automaton.states :
                visitCount[q] = IF q \in Reachable THEN 1 ELSE 0
    /\ xcalls >= 2 => StateLabelPairs(automaton.arcs) = StateLabelPairs(arcsAtCall)
    /\ xcalls >= 1 => /\ \A q \in automaton.states : visitCount[q] <= 1
                      /\ xsteps <= 1 + Len(arcsAtCall)

\* A call has returned on an automaton with a cycle through a state that has
\* an <other> arc and is the target of two arcs.
C8_Witness ==
    /\ ExpandReturned(1)
    /\ \E i, j, k \in 1 .. Len(arcsOrig) :
          /\ i # j
          /\ arcsOrig[i].nextstate = arcsOrig[j].nextstate
          /\ arcsOrig[i].src = 0 /\ arcsOrig[j].src = 0
          /\ arcsOrig[k].src = arcsOrig[i].nextstate
          /\ arcsOrig[k].src # 0
          /\ arcsOrig[k].nextstate = 0
          /\ arcsOrig[k].ilabel = Code(Other)

OtherArcsAt(q) ==
    {i \in 1 .. Len(arcsOrig) : arcsOrig[i].src = q /\ arcsOrig[i].ilabel = Code(Other)}

Added == SubSeq(automaton.arcs, Len(arcsOrig) + 1, Len(automaton.arcs))

----------------------------------------------------------------------------
(* all_strings_from_chain *)

\* symb_tab.find(k)
find(table, k) == table[k]

\* Line 199: automaton.properties(fst.CYCLIC, True) == fst.CYCLIC: some state
\* lies on a cycle.
is_cyclic(fst) ==
    \E q \in fst.states :
        q \in ReachFrom({fst.arcs[i].nextstate :
                            i \in {j \in 1 .. Len(fst.arcs) : fst.arcs[j].src = q}},
                        fst.arcs)

\* Lines 188-198: dfs(graph, path, paths), and its for loop from arc i on.
\* `paths` is one list, extended in place and handed back.
RECURSIVE dfs(_, _, _)
RECURSIVE dfs_arcs(_, _, _, _)
dfs(graph, path, acc) ==
    LET target == path[Len(path)][1]
    IN  IF num_arcs(graph, target) > 0
        THEN dfs_arcs(graph, path, 1, acc)
        ELSE acc \o <<path>>

dfs_arcs(graph, path, i, acc) ==
    LET out == ArcsOf(graph, path[Len(path)][1])
    IN  IF i > Len(out) THEN acc
        ELSE dfs_arcs(graph, path, i + 1,
                      dfs(graph, path \o << <<out[i].nextstate, out[i].olabel>> >>, acc))

\* The default list kept from one evaluation of the def to the next.
default_shared(old) == old

\* Line 188: the def statement is executed by every call of
\* all_strings_from_chain, and evaluates the default [] of `paths` anew.
default_at_def(old) == <<>>

\* The join of line 206 keeping the epsilons.
join_all(table, path) ==
    Concat([i \in 1 .. Len(path) |-> find(table, path[i][2])])

\* Line 206: ''.join([symb_tab.find(k) for (_, k) in path if k])
join(table, path) ==
    LET ks == SelectSeq(path, LAMBDA e : e[2] # 0)
    IN  Concat([i \in 1 .. Len(ks) |-> find(table, ks[i][2])])

PathStates == 0 .. 2

\* The labels of the generated acceptors: <epsilon>, a, b.
PathLabels == {0, Code(<<"a">>), Code(<<"b">>)}

PathArcs ==
    {Arc(s, l, l, d) : <<s, d>> \in {e \in PathStates \X PathStates : e[1] <= e[2]},
                       l \in PathLabels}

PathAutomata ==
    {[states |-> PathStates, start |-> 0, finals |-> {2}, arcs |-> SetToSeq(S)] :
        S \in SubsetsUpTo(PathArcs, MaxPathArcs)}

PathsInit ==
    /\ AppIdle
    /\ TokIdle
    /\ ExpIdle

\* A call of all_strings_from_chain on some automaton, up to line 198: the
\* def of dfs.
all_strings_from_chain_call ==
    /\ apc = "idle"
    /\ calls < MaxExtractCalls
    /\ \E fst \in PathAutomata : lattice' = fst
    /\ dfsDefault' = default_at_def(dfsDefault)
    /\ prevCount' = Len(dfsDefault)
    /\ paths' = <<>>
    /\ strings' = <<>>
    /\ exc' = None
    /\ calls' = calls + 1
    /\ apc' = "cyclic"
    /\ UNCHANGED <<astring, transducer, aelements, chain>>
    /\ UNCHANGED <<tokVars, expVars>>

\* Lines 199-200: the test for cycles.
all_strings_from_chain_cyclic ==
    /\ apc = "cyclic"
    /\ IF is_cyclic(lattice)
       THEN exc' = "FstError" /\ apc' = "raised"
       ELSE exc' = exc /\ apc' = "dfs"
    /\ UNCHANGED <<astring, transducer, aelements, chain, lattice, dfsDefault,
                   paths, strings, calls, prevCount>>
    /\ UNCHANGED <<tokVars, expVars>>

\* Lines 201-202: paths = dfs(automaton, [(start, 0)]), `paths` defaulted.
all_strings_from_chain_dfs ==
    /\ apc = "dfs"
    /\ LET r == dfs(lattice, << <<lattice.start, 0>> >>, dfsDefault)
       IN  paths' = r /\ dfsDefault' = r
    /\ apc' = "join"
    /\ UNCHANGED <<astring, transducer, aelements, chain, lattice, strings, exc,
                   calls, prevCount>>
    /\ UNCHANGED <<tokVars, expVars>>

\* Lines 203-207: a string for each path, and the return (through apply too).
all_strings_from_chain_join ==
    /\ apc = "join"
    /\ strings' = [i \in 1 .. Len(paths) |-> join(SymbolTable, paths[i])]
    /\ apc' = "returned"
    /\ UNCHANGED <<astring, transducer, aelements, chain, lattice, dfsDefault,
                   paths, exc, calls, prevCount>>
    /\ UNCHANGED <<tokVars, expVars>>

\* The caller is done with the result, or with the exception.
all_strings_from_chain_exit ==
    /\ apc \in {"returned", "raised"}
    /\ apc' = "idle"
    /\ lattice' = NoFst
    /\ paths' = <<>>
    /\ strings' = <<>>
    /\ exc' = None
    /\ prevCount' = 0
    /\ UNCHANGED <<astring, transducer, aelements, chain, dfsDefault, calls>>
    /\ UNCHANGED <<tokVars, expVars>>

PathsNext ==
    \/ all_strings_from_chain_call
    \/ all_strings_from_chain_cyclic
    \/ all_strings_from_chain_dfs
    \/ all_strings_from_chain_join
    \/ all_strings_from_chain_exit

SpecPaths == PathsInit /\ [][PathsNext]_vars

----------------------------------------------------------------------------
(* Claims about all_strings_from_chain *)

\* The sequences of arcs (by index) of an acyclic automaton that lead from the
\* start state to a state without outgoing arcs.
TerminalPaths(fst) ==
    {p \in SeqsUpTo(1 .. Len(fst.arcs), Cardinality(fst.states) - 1) :
        /\ \A i \in 1 .. Len(p) :
              fst.arcs[p[i]].src = IF i = 1 THEN fst.start
                                   ELSE fst.arcs[p[i - 1]].nextstate
        /\ LET last == IF p = <<>> THEN fst.start ELSE fst.arcs[p[Len(p)]].nextstate
           IN  \A j \in 1 .. Len(fst.arcs) : fst.arcs[j].src # last}

\* The symbols of the non-epsilon output labels of a path, concatenated.
PathString(fst, p) ==
    LET ls == SelectSeq([i \in 1 .. Len(p) |-> fst.arcs[p[i]].olabel],
                        LAMBDA l : l # 0)
    IN  Concat([i \in 1 .. Len(ls) |-> SymbolTable[ls[i]]])

Count(seq, x) == Cardinality({i \in 1 .. Len(seq) : seq[i] = x})

\* C6: for an acyclic automaton the list returned has one string for each path
\* from the start state to a state without outgoing arcs, duplicates kept: the
\* concatenation of the symbols of the path's non-epsilon output labels.
C6_OneStringPerPath ==
    apc = "returned" =>
        LET P == TerminalPaths(lattice)
        IN  /\ Len(strings) = Cardinality(P)
            /\ \A p \in P :
                  Count(strings, PathString(lattice, p)) =
                      Cardinality({q \in P : PathString(lattice, q) =
                                             PathString(lattice, p)})

\* Two paths with the same one-symbol string, one of them over an epsilon
\* arc, have been returned as two entries.
C6_Witness ==
    /\ apc = "returned"
    /\ \E i, j \in 1 .. Len(strings) :
          /\ i # j
          /\ strings[i] = strings[j]
          /\ Len(strings[i]) = 1
          /\ Len(paths[i]) # Len(paths[j])

\* path is a path of fst from its start state to a state without outgoing
\* arcs, as dfs records it.
IsTerminalPath(fst, path) ==
    /\ path # <<>>
    /\ path[1] = <<fst.start, 0>>
    /\ \A i \in 2 .. Len(path) :
          \E j \in 1 .. Len(fst.arcs) :
              /\ fst.arcs[j].src = path[i - 1][1]
              /\ fst.arcs[j].nextstate = path[i][1]
              /\ fst.arcs[j].olabel = path[i][2]
    /\ num_arcs(fst, path[Len(path)][1]) = 0

\* C10 as stated: the list dfs accumulates in is shared between invocations:
\* a later invocation starts with the paths an earlier one left in it.
C10_Original ==
    [][(calls >= 1 /\ calls' = calls + 1) => dfsDefault' = dfsDefault]_vars

\* C10 amended: every invocation accumulates in a list of its own, empty when
\* its traversal starts; the paths it collects and the strings it returns are
\* those of its own automaton, whatever earlier invocations collected.
C10_Amended ==
    /\ apc \in {"cyclic", "dfs"} => dfsDefault = <<>> /\ paths = <<>>
    /\ apc \in {"join", "returned"} =>
          /\ \A i \in 1 .. Len(paths) : IsTerminalPath(lattice, paths[i])
          /\ Len(paths) = Cardinality(TerminalPaths(lattice))
    /\ apc = "returned" => Len(strings) = Len(paths)

\* A second invocation has returned fewer strings than the first had paths.
C10_Witness ==
    /\ calls = 2
    /\ apc = "returned"
    /\ prevCount >= 2
    /\ Len(strings) = 1

----------------------------------------------------------------------------
(* apply: string_to_symbol_list, linear_fst, apply_fst_to_list *)

\* Lines 70-80 as a whole: the while loop from `str` on, `elems` collected.
RECURSIVE tokenize_loop_lenient(_, _, _)
tokenize_loop_lenient(sorted, str, elems) ==
    IF str = <<>> THEN [exc |-> None, elements |-> elems, arg |-> <<>>]
    ELSE LET m == first_match(sorted, str)
         IN  IF m = 0 THEN [exc |-> None, elements |-> elems, arg |-> str]
             ELSE tokenize_loop_lenient(sorted, consume(str, sorted[m]),
                                        Append(elems, sorted[m]))

RECURSIVE tokenize_loop(_, _, _)
tokenize_loop(sorted, str, elems) ==
    IF str = <<>> THEN [exc |-> None, elements |-> elems, arg |-> <<>>]
    ELSE LET m == first_match(sorted, str)
         IN  IF m = 0 THEN [exc |-> "IllegalSymbol", elements |-> <<>>, arg |-> str]
             ELSE tokenize_loop(sorted, consume(str, sorted[m]),
                                Append(elems, sorted[m]))

\* Lines 58-80.
string_to_symbol_list(str, syms) == tokenize_loop(sorted_by_len(syms), str, <<>>)

\* Line 222: [x for (_, x) in automaton.input_symbols()]
input_symbols(table) == [i \in 1 .. Cardinality(DOMAIN table) |-> table[i - 1]]

\* Lines 97-108: the compiler is given "i i+1 el" for each element and then
\* str(i+1), i being the loop's variable: not bound when elements is empty.
linear_fst(elems, table) ==
    IF elems = <<>>
    THEN [exc |-> "UnboundLocalError", fst |-> NoFst]
    ELSE [exc |-> None,
          fst |-> [states |-> 0 .. Len(elems), start |-> 0, finals |-> {Len(elems)},
                   arcs |-> [i \in 1 .. Len(elems) |->
                               Arc(i - 1, symb_map(table, elems[i]),
                                   symb_map(table, elems[i]), i)]]]

EmptyFst == [states |-> {}, start |-> -1, finals |-> {}, arcs |-> <<>>]

\* Line 171: fst.compose(linear_automata, automaton), which trims its result
\* (connect=True). State (i, q) is numbered i * |states of t| + q. An arc of t
\* with input label <epsilon> is taken alone; any other is taken with an arc
\* of c whose output label is its input label.
compose(c, t) ==
    LET n == Cardinality(t.states)
        id(i, q) == i * n + q
        cand == {e \in c.states \X (0 .. Len(c.arcs)) \X (1 .. Len(t.arcs)) :
                    IF e[2] = 0
                    THEN t.arcs[e[3]].ilabel = 0
                    ELSE /\ c.arcs[e[2]].src = e[1]
                         /\ t.arcs[e[3]].ilabel # 0
                         /\ c.arcs[e[2]].olabel = t.arcs[e[3]].ilabel}
        arcOf(e) ==
            IF e[2] = 0
            THEN Arc(id(e[1], t.arcs[e[3]].src), 0, t.arcs[e[3]].olabel,
                     id(e[1], t.arcs[e[3]].nextstate))
            ELSE Arc(id(e[1], t.arcs[e[3]].src), c.arcs[e[2]].ilabel,
                     t.arcs[e[3]].olabel,
                     id(c.arcs[e[2]].nextstate, t.arcs[e[3]].nextstate))
        key(e) == (id(e[1], t.arcs[e[3]].src) * (Len(t.arcs) + 1) + e[3])
                     * (Len(c.arcs) + 1) + e[2]
        RECURSIVE ord(_)
        ord(S) == IF S = {} THEN <<>>
                  ELSE LET e == CHOOSE x \in S : \A y \in S : key(x) <= key(y)
                       IN  <<arcOf(e)>> \o ord(S \ {e})
        all == ord(cand)
        start == id(c.start, t.start)
        finals == {id(i, q) : i \in c.finals, q \in t.finals}
        keep == {s \in ReachFrom({start}, all) : ReachFrom({s}, all) \cap finals # {}}
    IN  IF start \notin keep THEN EmptyFst
        ELSE [states |-> keep, start |-> start, finals |-> finals \cap keep,
              arcs |-> SelectSeq(all, LAMBDA a : a.src \in keep /\ a.nextstate \in keep)]

\* Line 173: out.project('output')
project_output(fst) ==
    [fst EXCEPT !.arcs = [i \in 1 .. Len(fst.arcs) |->
                            [fst.arcs[i] EXCEPT !.ilabel = fst.arcs[i].olabel]]]

\* Lines 170-174
apply_fst_to_list(linear_automata, t) == project_output(compose(linear_automata, t))

\* lattice.num_states()
num_states(fst) == Cardinality(fst.states)

\* The automaton expand_other_symbols leaves.
expanded(fst) ==
    [fst EXCEPT !.arcs =
        @ \o Concat([i \in 1 .. Cardinality(fst.states) |->
                        IF i - 1 \in ReachFrom({fst.start}, fst.arcs)
                        THEN added_arcs(fst, i - 1, SymbolTable) ELSE <<>>])]

TransducerStates == 0 .. 1

\* The label pairs of the generated transducers: a:A, b:B, <epsilon>:B,
\* a:<epsilon>.
TransducerLabels ==
    { <<Code(<<"a">>), Code(<<"A">>)>>, <<Code(<<"b">>), Code(<<"B">>)>>,
      <<0, Code(<<"B">>)>>, <<Code(<<"a">>), 0>> }

TransducerArcs ==
    {Arc(s, l[1], l[2], d) : s \in TransducerStates, d \in TransducerStates,
                             l \in TransducerLabels}

Transducers ==
    {[states |-> TransducerStates, start |-> 0, finals |-> F, arcs |-> SetToSeq(S)] :
        F \in SUBSET TransducerStates,
        S \in SubsetsUpTo(TransducerArcs, MaxTransducerArcs)}
    \cup {expanded(Scramble)}

\* x is no symbol of the table.
InputChars == {"a", "b", "x"}

ApplyInputs == SeqsUpTo(InputChars, MaxInputLen)

ApplyInit ==
    /\ apc = "tokenize"
    /\ astring \in ApplyInputs
    /\ transducer \in Transducers
    /\ aelements = <<>>
    /\ chain = NoFst
    /\ lattice = NoFst
    /\ dfsDefault = <<>>
    /\ paths = <<>>
    /\ strings = <<>>
    /\ exc = None
    /\ calls = 0
    /\ prevCount = 0
    /\ TokIdle
    /\ ExpIdle

\* Lines 222-223
apply_tokenize ==
    /\ apc = "tokenize"
    /\ LET r == string_to_symbol_list(astring, input_symbols(SymbolTable))
       IN  IF r.exc # None
           THEN exc' = r.exc /\ apc' = "raised" /\ UNCHANGED aelements
           ELSE aelements' = r.elements /\ apc' = "linear_fst" /\ UNCHANGED exc
    /\ UNCHANGED <<astring, transducer, chain, lattice, dfsDefault, paths, strings,
                   calls, prevCount>>
    /\ UNCHANGED <<tokVars, expVars>>

\* Lines 224, 170
apply_linear_fst ==
    /\ apc = "linear_fst"
    /\ LET r == linear_fst(aelements, SymbolTable)
       IN  IF r.exc # None
           THEN exc' = r.exc /\ apc' = "raised" /\ UNCHANGED chain
           ELSE chain' = r.fst /\ apc' = "compose" /\ UNCHANGED exc
    /\ UNCHANGED <<astring, transducer, aelements, lattice, dfsDefault, paths,
                   strings, calls, prevCount>>
    /\ UNCHANGED <<tokVars, expVars>>

\* Lines 171-174, 224
apply_compose ==
    /\ apc = "compose"
    /\ lattice' = apply_fst_to_list(chain, transducer)
    /\ apc' = "num_states"
    /\ UNCHANGED <<astring, transducer, aelements, chain, dfsDefault, paths,
                   strings, exc, calls, prevCount>>
    /\ UNCHANGED <<tokVars, expVars>>

\* Lines 225-229, and 188 when all_strings_from_chain is called.
apply_num_states ==
    /\ apc = "num_states"
    /\ IF num_states(lattice) > 0
       THEN /\ dfsDefault' = default_at_def(dfsDefault)
            /\ prevCount' = Len(dfsDefault)
            /\ calls' = calls + 1
            /\ apc' = "cyclic"
            /\ UNCHANGED strings
       ELSE /\ strings' = <<>>
            /\ apc' = "returned"
            /\ UNCHANGED <<dfsDefault, prevCount, calls>>
    /\ UNCHANGED <<astring, transducer, aelements, chain, lattice, paths, exc>>
    /\ UNCHANGED <<tokVars, expVars>>

ApplyNext ==
    \/ apply_tokenize
    \/ apply_linear_fst
    \/ apply_compose
    \/ apply_num_states
    \/ all_strings_from_chain_cyclic
    \/ all_strings_from_chain_dfs
    \/ all_strings_from_chain_join

SpecApply == ApplyInit /\ [][ApplyNext]_vars

----------------------------------------------------------------------------
(* The whole module *)

Init == TokInit \/ ExpInit \/ PathsInit \/ ApplyInit

Next == TokNext \/ ExpNext \/ PathsNext \/ ApplyNext

Spec == Init /\ [][Next]_vars

----------------------------------------------------------------------------
(* Claims about apply *)

SymbolOf(l) == IF l = 0 THEN <<>> ELSE SymbolTable[l]

\* The output strings of the paths of t from state q to a final state whose
\* input labels, epsilons removed, are `codes`, paths of at most `fuel` arcs.
RECURSIVE Outputs(_, _, _, _)
Outputs(t, codes, q, fuel) ==
    LET here == IF codes = <<>> /\ q \in t.finals THEN {<<>>} ELSE {}
        out == {k \in 1 .. Len(t.arcs) :
                   /\ t.arcs[k].src = q
                   /\ \/ t.arcs[k].ilabel = 0
                      \/ codes # <<>> /\ t.arcs[k].ilabel = Head(codes)}
    IN  IF fuel = 0 THEN here
        ELSE here \cup
             UNION {{SymbolOf(t.arcs[k].olabel) \o w :
                        w \in Outputs(t, IF t.arcs[k].ilabel = 0 THEN codes ELSE Tail(codes),
                                      t.arcs[k].nextstate, fuel - 1)} : k \in out}

\* An accepting path of an acyclic composition has fewer arcs than the
\* composition has states.
AcceptedOutputs(t, elems) ==
    Outputs(t, [i \in 1 .. Len(elems) |-> Code(elems[i])], t.start,
            (Len(elems) + 1) * Cardinality(t.states))

ApplyEnded == apc \in {"returned", "raised"}

\* C3, for an input string that is not empty: when the input is over the
\* alphabet and the composition is acyclic, apply returns, as a set, the output
\* strings of the accepting paths of the transducer that read the input.
C3_Claim ==
    (ApplyEnded /\ astring # <<>> /\ exc \notin {"IllegalSymbol", "FstError"}) =>
        /\ exc = None
        /\ Range(strings) = AcceptedOutputs(transducer, aelements)

LinearFstCalled == apc \notin {"idle", "tokenize", "linear_fst"} /\ exc # "IllegalSymbol"

\* C4: linear_fst, called with N >= 0 symbols, returns an automaton with
\* states 0 .. N, start state 0, and N arcs, arc i from state i to state i+1
\* labelled with symbol i, so that state N has no outgoing arc.
C4_Claim ==
    LinearFstCalled =>
        /\ chain # NoFst
        /\ chain.states = 0 .. Len(aelements)
        /\ chain.start = 0
        /\ Len(chain.arcs) = Len(aelements)
        /\ \A i \in 1 .. Len(aelements) :
              chain.arcs[i] = Arc(i - 1, Code(aelements[i]), Code(aelements[i]), i)

\* C5: an input that cannot be tokenized raises IllegalSymbol and no chain or
\* lattice is ever built; a cyclic lattice raises FstError and dfs is never
\* entered; with an exception no string is returned.
C5_EagerErrors ==
    /\ (apc # "tokenize" /\ ~Decomposable(astring, Range(input_symbols(SymbolTable)))) =>
          /\ apc = "raised" /\ exc = "IllegalSymbol"
          /\ chain = NoFst /\ lattice = NoFst /\ calls = 0
    /\ exc = "IllegalSymbol" => chain = NoFst /\ lattice = NoFst /\ calls = 0
    /\ (apc \notin {"tokenize", "linear_fst", "compose", "num_states", "cyclic"}
          /\ lattice # NoFst /\ is_cyclic(lattice)) =>
          apc = "raised" /\ exc = "FstError"
    /\ exc = "FstError" => paths = <<>> /\ dfsDefault = <<>>
    /\ exc # None => apc = "raised" /\ strings = <<>> /\ paths = <<>>
    /\ apc = "raised" => exc # None

\* A two-symbol input whose lattice has a cycle has raised FstError.
C5_Witness ==
    /\ apc = "raised"
    /\ exc = "FstError"
    /\ Len(aelements) = 2
    /\ is_cyclic(lattice)
    /\ calls = 1

====
